---- MODULE Spec2Model ----
(***************************************************************************)
(* Semantic search of the SCP database: the Record Store (SCP, PERSONNEL   *)
(* rows), the Chunk Store (SCP_SEMANTIC_CHUNKS), the persisted HNSW index, *)
(* the sync pass update_vector_store and perform_semantic_search, as in    *)
(* src/src/database_queries/semantic_search.py.                            *)
(***************************************************************************)
EXTENDS Integers, Sequences, FiniteSets, TLC

VARIABLES
    records,     \* Record Store rows: [type, id, code, ntok]
    nextId,      \* AUTO_INCREMENT counter of each Record Store table
    chunks,      \* committed rows of SCP_SEMANTIC_CHUNKS
    nextChunk,   \* AUTO_INCREMENT counter of chunk_id
    index_file,  \* the artifact at INDEX_PATH: [exists, labels]
    cache,       \* _hnsw_index of the serving process: [loaded, labels]
    pass,        \* the update_vector_store call in flight (and its inputs)
    last,        \* how the latest pass ended, "none" after a Record Store write
    edits,       \* Record Store writes so far
    passes,      \* update_vector_store calls started so far
    search,      \* the perform_semantic_search call that has just returned
    npass,       \* the update_vector_store call a search has in flight
    chunker,     \* one chunk_text call: its configuration, input and output
    writer,      \* the rebuild_index_from_mysql call in flight
    loader,      \* the load_hnsw_index call in flight
    snap,        \* one Record Store row and the snapshot entry built from it
    txn,         \* one execute_transaction call and its connection
    removal      \* the remove_from_vector_store call that has just returned

vars == <<records, nextId, chunks, nextChunk, index_file, cache, pass, last,
          edits, passes, search, npass, chunker, writer, loader, snap, txn,
          removal>>

\* what the sync script, the Record Store writers and a sequential search
\* leave alone
others == <<npass, chunker, writer, loader, snap, txn, removal>>

----------------------------------------------------------------------------
(* Bounds of the model *)

\* Record Store writes explored
MaxEdits == 2
\* update_vector_store calls explored
MaxPasses == 3
\* rows per Record Store table (AUTO_INCREMENT ids 1..MaxId)
MaxId == 2
\* semantic_search.py:30 sets 32; scaled down so that a batch boundary falls
\* inside an entity's chunks with the short texts below
BATCH_SIZE == 2
\* characters of a text given to chunk_text
MaxTextLen == 5
\* configurations of chunk_text: CHUNK_SIZE in 1..MaxChunkSize and
\* CHUNK_OVERLAP in 0..MaxChunkOverlap
MaxChunkSize == 3
MaxChunkOverlap == 3
\* rows of the Chunk Store when a rebuild or a load is followed step by step
MaxRows == 2
\* rows of SCP_ASSIGNMENT for the anomaly that is transferred
MaxAssign == 3
\* frames of load_hnsw_index calling itself before the interpreter's
\* recursion limit is hit (1000 by default in CPython)
MaxDepth == 3

(* Program constants *)
CHUNK_SIZE == 800
CHUNK_OVERLAP == 100

SCP100 == <<"S", "C", "P", "-", "1", "0", "0">>
SCP1000 == <<"S", "C", "P", "-", "1", "0", "0", "0">>
CodesOf(t) == IF t = "SCP" THEN {SCP100, SCP1000} ELSE {<<"X">>, <<"Y">>}

\* token counts of the rendered texts: one chunk, two chunks
TextLens == {100, 800}

----------------------------------------------------------------------------
(* Helpers *)

Min(a, b) == IF a < b THEN a ELSE b

\* a finite set of integers as an ascending sequence
RECURSIVE SortInts(_)
SortInts(S) ==
    IF S = {} THEN <<>>
    ELSE LET m == CHOOSE x \in S : \A y \in S : x <= y
         IN <<m>> \o SortInts(S \ {m})

\* Record Store rows of one table in primary-key order
RowsById(rows) ==
    LET ids == SortInts({r.id : r \in rows})
    IN [i \in DOMAIN ids |-> CHOOSE r \in rows : r.id = ids[i]]

\* ... ORDER BY chunk_id ASC
ChunksById(cs) ==
    LET ids == SortInts({c.chunk_id : c \in cs})
    IN [i \in DOMAIN ids |-> CHOOSE c \in cs : c.chunk_id = ids[i]]

----------------------------------------------------------------------------
(* Strings of the fast path: codes are sequences of characters *)

Digits == <<"0", "1", "2", "3", "4", "5", "6", "7", "8", "9">>

DigitVal(ch) == (CHOOSE i \in 1..10 : Digits[i] = ch) - 1

\* int("0042") = 42
RECURSIVE ToInt(_)
ToInt(ds) ==
    IF ds = <<>> THEN 0
    ELSE ToInt(SubSeq(ds, 1, Len(ds) - 1)) * 10 + DigitVal(ds[Len(ds)])

RECURSIVE IntDigits(_)
IntDigits(n) ==
    IF n < 10 THEN <<Digits[n + 1]>>
    ELSE IntDigits(n \div 10) \o <<Digits[(n % 10) + 1]>>

\* f"{n:03d}"
RECURSIVE PadTo3(_)
PadTo3(ds) == IF Len(ds) >= 3 THEN ds ELSE PadTo3(<<"0">> \o ds)

Format03d(n) == PadTo3(IntDigits(n))

\* what 0* consumes in 0*([0-9]{1,4})\b: the leading zeros, but for one digit
RECURSIVE StripZeros(_)
StripZeros(ds) ==
    IF Len(ds) > 1 /\ Head(ds) = "0" THEN StripZeros(Tail(ds)) ELSE ds

ScpPrefix == <<"S", "C", "P", "-">>

\* the text of a query that names a designation: "SCP-" and its digits
QueryText(q) == ScpPrefix \o q.digits

\* re.search(r"\bSCP[- ]?0*([0-9]{1,4})\b", query): the group has 1 to 4 digits
ScpMatch(q) == q.kind = "code" /\ Len(StripZeros(q.digits)) <= 4

\* scp_num = f"SCP-{int(group(1)):03d}"
ScpNum(q) == ScpPrefix \o Format03d(ToInt(StripZeros(q.digits)))

\* s LIKE %pat%
Contains(s, pat) ==
    \E i \in 0..(Len(s) - Len(pat)) : SubSeq(s, i + 1, i + Len(pat)) = pat

\* SELECT ... FROM SCP WHERE scp_code LIKE %scp_num%: the rows LIMIT 1 picks from
FastPathRows(rs, q) ==
    {r \in rs : r.type = "SCP" /\ Contains(r.code, ScpNum(q))}

FAST_PATH_SCORE == 1

FastResult(r) ==
    <<[id |-> r.id, type |-> "SCP", scp_code |-> r.code,
       score |-> FAST_PATH_SCORE]>>

----------------------------------------------------------------------------
(* chunk_text: the window starts range(0, len(tokens), CHUNK_SIZE - CHUNK_OVERLAP) *)

RECURSIVE StartsFrom(_, _)
StartsFrom(i, ntok) ==
    IF i >= ntok THEN <<>>
    ELSE <<i>> \o StartsFrom(i + (CHUNK_SIZE - CHUNK_OVERLAP), ntok)

ChunkStarts(ntok) == IF ntok = 0 THEN <<>> ELSE StartsFrom(0, ntok)

NumChunks(ntok) == Len(ChunkStarts(ntok))

----------------------------------------------------------------------------
(* chunk_text on a text of characters, for any CHUNK_SIZE and CHUNK_OVERLAP *)

\* text.strip(): the text without its leading and trailing whitespace
RECURSIVE LStrip(_)
LStrip(t) == IF t # <<>> /\ Head(t) = " " THEN LStrip(Tail(t)) ELSE t

RECURSIVE RStrip(_)
RStrip(t) ==
    IF t # <<>> /\ t[Len(t)] = " " THEN RStrip(SubSeq(t, 1, Len(t) - 1))
    ELSE t

Strip(t) == RStrip(LStrip(t))

\* text.split(): the maximal runs of non-whitespace characters; w is the
\* run being read
RECURSIVE SplitFrom(_, _)
SplitFrom(t, w) ==
    IF t = <<>> THEN (IF w = <<>> THEN <<>> ELSE <<w>>)
    ELSE IF Head(t) = " "
    THEN (IF w = <<>> THEN <<>> ELSE <<w>>) \o SplitFrom(Tail(t), <<>>)
    ELSE SplitFrom(Tail(t), Append(w, Head(t)))

Split(t) == SplitFrom(t, <<>>)

\* " ".join(tokens)
RECURSIVE Join(_)
Join(ws) ==
    IF ws = <<>> THEN <<>>
    ELSE IF Len(ws) = 1 THEN ws[1]
    ELSE ws[1] \o <<" ">> \o Join(Tail(ws))

\* tokens[i:i + size]
Slice(tokens, i, size) == SubSeq(tokens, i + 1, Min(i + size, Len(tokens)))

RECURSIVE RangeFrom(_, _, _)
RangeFrom(i, stop, step) ==
    IF i >= stop THEN <<>> ELSE <<i>> \o RangeFrom(i + step, stop, step)

\* range(0, stop, step) for step # 0: empty when the step is negative
Range0(stop, step) == IF step < 0 THEN <<>> ELSE RangeFrom(0, stop, step)

\* a slide step that ignores the overlap
StepNoOverlap(size, overlap) == size

\* CHUNK_SIZE - CHUNK_OVERLAP
Step(size, overlap) == size - overlap

\* the chunks of a text that has tokens; range() raises ValueError on step 0
ChunksOfTokens(tokens, size, step) ==
    IF step = 0 THEN [raised |-> TRUE, chunks |-> <<>>]
    ELSE [raised |-> FALSE,
          chunks |-> [k \in DOMAIN Range0(Len(tokens), step) |->
                         Join(Slice(tokens, Range0(Len(tokens), step)[k],
                                    size))]]

ChunkTextOf(text, size, overlap) ==
    IF text = <<>> \/ Split(Strip(text)) = <<>>
    THEN [raised |-> FALSE, chunks |-> <<>>]
    ELSE ChunksOfTokens(Split(Strip(text)), size, Step(size, overlap))

----------------------------------------------------------------------------
(* update_vector_store: the snapshot and the diff *)

EntriesOf(t, rs) ==
    LET rows == RowsById({r \in rs : r.type = t})
    IN [i \in DOMAIN rows |->
           [ref_id |-> rows[i].id, ref_type |-> t,
            code |-> rows[i].code, ntok |-> rows[i].ntok]]

\* all_entries: the SCP rows, then the PERSONNEL rows
AllEntries(rs) == EntriesOf("SCP", rs) \o EntriesOf("PERSONNEL", rs)

\* SELECT DISTINCT scp_code FROM SCP_SEMANTIC_CHUNKS
ProcessedCodes(cs) == {c.scp_code : c \in cs}

CurrentCodes(entries) == {entries[i].code : i \in DOMAIN entries}

\* a diff that forgets the stored codes: every entity is chunked again
ToAddAll(entries, processed) == entries

ToAdd(entries, processed) ==
    SelectSeq(entries, LAMBDA e : e.code \notin processed)

\* a diff that removes every stored code
ToRemoveAll(processed, current) == processed

ToRemove(processed, current) == processed \ current

\* DELETE FROM SCP_SEMANTIC_CHUNKS WHERE scp_code IN (to_remove)
DeleteByCodes(cs, codes) == {c \in cs : c.scp_code \notin codes}

\* the (entry, idx) pairs of the Add loop, in loop order
RECURSIVE ChunkMetas(_)
ChunkMetas(entries) ==
    IF entries = <<>> THEN <<>>
    ELSE LET e == Head(entries)
         IN [i \in 1..NumChunks(e.ntok) |->
                [ref_id |-> e.ref_id, ref_type |-> e.ref_type,
                 code |-> e.code, idx |-> i - 1]]
            \o ChunkMetas(Tail(entries))

\* the rows one batch INSERTs, chunk_id from the AUTO_INCREMENT counter
InsertBatch(batch, next) ==
    {[chunk_id |-> next + i - 1,
      ref_id |-> batch[i].ref_id, ref_type |-> batch[i].ref_type,
      scp_code |-> batch[i].code, chunk_index |-> batch[i].idx,
      blob_ok |-> TRUE] : i \in DOMAIN batch}

----------------------------------------------------------------------------
(* rebuild_index_from_mysql *)

\* the rows whose embedding_blob unpickles, in chunk_id order: label i - 1
\* carries the vector of entry i
Vectors(cs) ==
    SelectSeq(ChunksById(cs), LAMBDA r : r.blob_ok)

IndexLabels(cs) ==
    LET v == Vectors(cs) IN [i \in DOMAIN v |-> v[i].chunk_id]

\* np.vstack([]) raises when rows exist and no blob unpickles
RebuildRaises(cs) == cs # {} /\ Vectors(cs) = <<>>

RebuiltFile(cs, file) ==
    IF RebuildRaises(cs) THEN file
    ELSE [exists |-> TRUE, labels |-> IndexLabels(cs)]

\* a rebuild that leaves the cached index in place
RebuiltCacheKept(cs, c) == c

\* _hnsw_index = None only on the non-empty path (the empty path returns early)
RebuiltCache(cs, c) ==
    IF cs = {} \/ RebuildRaises(cs) THEN c
    ELSE [loaded |-> FALSE, labels |-> <<>>]

NoFile == [exists |-> FALSE, labels |-> <<>>]
NoCache == [loaded |-> FALSE, labels |-> <<>>]

----------------------------------------------------------------------------
(* update_vector_store called from perform_semantic_search (line 313): the *)
(* whole pass inside the search call                                       *)

\* the Add loop; ok is the number of encode calls that succeed before the
\* embedder raises (negative: it never raises)
RECURSIVE AddBatches(_, _, _, _, _)
AddBatches(cs, next, pending, ok, used) ==
    IF pending = <<>>
    THEN [chunks |-> cs, next |-> next, raised |-> FALSE, used |-> used]
    ELSE IF ok = 0
    THEN [chunks |-> cs, next |-> next, raised |-> TRUE, used |-> used]
    ELSE LET n == Min(BATCH_SIZE, Len(pending))
         IN AddBatches(cs \cup InsertBatch(SubSeq(pending, 1, n), next),
                       next + n, SubSeq(pending, n + 1, Len(pending)),
                       ok - 1, used + 1)

\* lines 283-286: the rebuild when the diff was not empty or no index file
\* exists, and how the pass ends
PassEnd(added, needed, file, c) ==
    LET raised == added.raised \/ (needed /\ RebuildRaises(added.chunks))
        rebuilt == needed /\ ~raised
    IN [chunks |-> added.chunks, next |-> added.next, used |-> added.used,
        file |-> IF rebuilt THEN RebuiltFile(added.chunks, file) ELSE file,
        cache |-> IF rebuilt THEN RebuiltCache(added.chunks, c) ELSE c,
        raised |-> raised,
        ended |-> IF added.raised THEN "crashed_add"
                  ELSE IF raised THEN "crashed" ELSE "complete"]

RunPass(rs, cs, next, file, c, ok) ==
    LET entries == AllEntries(rs)
        processed == ProcessedCodes(cs)
        to_add == ToAdd(entries, processed)
        to_remove == ToRemove(processed, CurrentCodes(entries))
    IN PassEnd(AddBatches(DeleteByCodes(cs, to_remove), next,
                          ChunkMetas(to_add), ok, 0),
               to_add # <<>> \/ to_remove # {} \/ ~file.exists, file, c)

----------------------------------------------------------------------------
(* load_hnsw_index *)

\* the file after the rebuilds of lines 76-78 and 89-91
LoadedFile(cs, file, first, loadfail) ==
    IF first
    THEN IF RebuiltFile(cs, file).exists /\ loadfail
         THEN RebuiltFile(cs, RebuiltFile(cs, file))
         ELSE RebuiltFile(cs, file)
    ELSE IF file.exists /\ loadfail THEN RebuiltFile(cs, file) ELSE file

\* lines 77-92: load the file when it exists
LoadFrom(cs, file, c, rebuilt, f2, c1) ==
    IF rebuilt /\ RebuildRaises(cs)
    THEN [ok |-> FALSE, raised |-> TRUE, labels |-> <<>>,
          file |-> file, cache |-> c]
    ELSE IF ~f2.exists
    THEN [ok |-> FALSE, raised |-> FALSE, labels |-> <<>>,
          file |-> f2, cache |-> c1]
    ELSE [ok |-> TRUE, raised |-> FALSE, labels |-> f2.labels,
          file |-> f2,
          cache |-> [loaded |-> TRUE, labels |-> f2.labels]]

\* dbdown: no connection, the fetch of rebuild_index_from_mysql raises and
\* the rebuild returns; loadfail: load_index raises on the first attempt
LoadIndex(cs, file, c, dbdown, loadfail) ==
    IF c.loaded
    THEN [ok |-> TRUE, raised |-> FALSE, labels |-> c.labels,
          file |-> file, cache |-> c]
    ELSE LoadFrom(cs, file, c,
                  (~file.exists /\ ~dbdown)
                      \/ (LoadedFile(cs, file, ~file.exists /\ ~dbdown,
                                     FALSE).exists /\ loadfail),
                  LoadedFile(cs, file, ~file.exists /\ ~dbdown, loadfail),
                  IF ~file.exists /\ ~dbdown THEN RebuiltCache(cs, c) ELSE c)

----------------------------------------------------------------------------
(* perform_semantic_search: the retrieval path *)

Failures == {"none", "db", "embedder", "embedder_mid", "reranker", "load"}

EncodeBudget(fail) ==
    IF fail = "embedder" THEN 0 ELSE IF fail = "embedder_mid" THEN 1 ELSE 0 - 1

\* line 315: the index is loaded again after the sync
Reloaded(ran, ld2) ==
    LET got == [ran EXCEPT !.file = ld2.file, !.cache = ld2.cache]
    IN IF ld2.raised \/ ~ld2.ok THEN [got EXCEPT !.exc = "index"]
       ELSE IF Len(ld2.labels) = 0 THEN got
       ELSE [got EXCEPT !.stop = FALSE, !.labels = ld2.labels]

\* lines 313-315: the sync an empty index triggers
Synced(base, rp) ==
    LET ran == [base EXCEPT !.chunks = rp.chunks, !.next = rp.next,
                             !.file = rp.file, !.cache = rp.cache,
                             !.ran = rp.ended, !.used = rp.used]
    IN IF rp.raised
       THEN [ran EXCEPT !.exc = IF rp.ended = "crashed_add"
                                 THEN "embedder" ELSE "index"]
       ELSE Reloaded(ran, LoadIndex(rp.chunks, rp.file, rp.cache,
                                    FALSE, FALSE))

\* lines 309-312: what the first load gives
Loaded(rs, cs, next, fail, ld) ==
    LET base == [stop |-> TRUE, exc |-> "none", labels |-> <<>>,
                 chunks |-> cs, next |-> next, file |-> ld.file,
                 cache |-> ld.cache, ran |-> "no", used |-> 0]
    IN IF ld.raised THEN [base EXCEPT !.exc = "index"]
       ELSE IF ~ld.ok THEN base
       ELSE IF Len(ld.labels) > 0
       THEN [base EXCEPT !.stop = FALSE, !.labels = ld.labels]
       ELSE IF fail = "db" THEN [base EXCEPT !.exc = "db"]
       ELSE Synced(base, RunPass(rs, cs, next, ld.file, ld.cache,
                                 EncodeBudget(fail)))

\* lines 309-315: the index the query runs on, after the sync an empty index
\* triggers; stop: the call returns [] here, exc: the exception that ends it
Prepare(rs, cs, next, file, c, fail) ==
    Loaded(rs, cs, next, fail,
           LoadIndex(cs, file, c, fail = "db", fail = "load"))

KSubsets(S, k) == {T \in SUBSET S : Cardinality(T) = k}

\* lines 324-329: the chunk_id at position label of the ascending scan
LabelToChunk(cs, L) ==
    LET id_list == ChunksById(cs)
    IN {id_list[l + 1].chunk_id : l \in {x \in L : x < Len(id_list)}}

\* lines 331-336: MATCH ... AGAINST ... LIMIT topk, for three kinds of query
\* text: matching nothing, or every chunk with LIMIT keeping the first or the
\* last rows
KeywordProfiles == {"nothing", "first", "latest"}

KeywordRows(cs, kp, topk) ==
    LET ids == SortInts({c.chunk_id : c \in cs})
        n == Min(topk, Len(ids))
    IN IF kp = "nothing" THEN {}
       ELSE IF kp = "first" THEN {ids[i] : i \in 1..n}
       ELSE {ids[i] : i \in (Len(ids) - n + 1)..Len(ids)}

\* reranker.predict, for three kinds of relevance
ScoreProfiles == {"newest", "oldest", "flat"}

Score(sp, row) ==
    IF sp = "newest" THEN row.chunk_id
    ELSE IF sp = "oldest" THEN 0 - row.chunk_id ELSE 0

\* the candidates left in the order the database returned them
Unsorted(xs) == xs

\* sorted(zip(chunk_rows, scores), key=score, reverse=True): stable
RECURSIVE SortByScore(_)
SortByScore(xs) ==
    IF xs = <<>> THEN <<>>
    ELSE LET i == CHOOSE i \in DOMAIN xs :
                      \A j \in DOMAIN xs :
                          \/ xs[j].score < xs[i].score
                          \/ xs[j].score = xs[i].score /\ j >= i
         IN <<xs[i]>> \o SortByScore(SubSeq(xs, 1, i - 1)
                                     \o SubSeq(xs, i + 1, Len(xs)))

\* a key per chunk instead of per entity
DedupKeyPerChunk(row) == row.chunk_id

\* unique_key = f"{row['ref_type']}_{row['ref_id']}"
DedupKey(row) == <<row.ref_type, row.ref_id>>

\* a walk that stops one entry late
FullLate(results, topk) == Len(results) > topk

\* line 395: if len(results) >= topk: break
Full(results, topk) == Len(results) >= topk

\* lines 353-395: keep the first row of each key, stop at topk results; the
\* title fetch of lines 361-383 fills title and object_class when its row
\* exists and leaves them empty otherwise, the entry is appended either way
RECURSIVE Walk(_, _, _, _)
Walk(sorted, seen, results, topk) ==
    IF sorted = <<>> THEN results
    ELSE LET x == Head(sorted)
             key == DedupKey(x.row)
             more == Append(results,
                            [id |-> x.row.ref_id, type |-> x.row.ref_type,
                             scp_code |-> x.row.scp_code, score |-> x.score])
         IN IF key \in seen THEN Walk(Tail(sorted), seen, results, topk)
            ELSE IF Full(more, topk) THEN more
            ELSE Walk(Tail(sorted), seen \cup {key}, more, topk)

\* lines 340-351: the candidate rows with their scores, best first
Ranked(cs, cand, sp) ==
    LET rows == ChunksById({c \in cs : c.chunk_id \in cand})
    IN SortByScore([i \in DOMAIN rows |->
                       [row |-> rows[i], score |-> Score(sp, rows[i])]])

\* a handler for database errors only
HandlesDbOnly(exc) == exc = "db"

\* line 398, except Exception: every exception a step raises is caught
Handles(exc) == TRUE

NoQuery == [kind |-> "text", digits |-> <<>>]

NoSearch ==
    [pc |-> "idle", query |-> NoQuery, topk |-> 0, fail |-> "none",
     path |-> "none", result |-> <<>>, raised |-> FALSE, exc |-> "none",
     pristine |-> FALSE, ran |-> "no", ranked |-> <<>>, labels |-> <<>>,
     knn |-> {}]

----------------------------------------------------------------------------
(* State *)

IdlePass ==
    [pc |-> "idle", entries |-> <<>>, processed |-> {}, to_add |-> <<>>,
     to_remove |-> {}, pending |-> <<>>, chunks0 |-> {}, prev |-> "none",
     rebuilt |-> FALSE, unread |-> {}]

\* no chunk_text call, no rebuild and no load in flight
NoChunker == [pc |-> "idle"]
NoWriter == [pc |-> "idle"]
NoLoader == [pc |-> "idle"]
\* no snapshot entry being built, no transaction open
NoSnap == [pc |-> "idle"]
NoTxn == [pc |-> "idle"]
\* no remove_from_vector_store call
NoRemoval == [pc |-> "idle"]

\* the Record Store may hold any rows when the service starts (here: a
\* prefix of each table of SeedRows); the Chunk Store is empty and no index
\* artifact exists
SeedRows ==
    {[type |-> "SCP", id |-> 1, code |-> SCP100, ntok |-> 800],
     [type |-> "SCP", id |-> 2, code |-> SCP1000, ntok |-> 100],
     [type |-> "PERSONNEL", id |-> 1, code |-> <<"X">>, ntok |-> 800]}

InitStores ==
    {rs \in SUBSET SeedRows :
        \A r \in rs : \A q \in SeedRows :
            (q.type = r.type /\ q.id < r.id) => q \in rs}

RowCount(rs, t) == Cardinality({r \in rs : r.type = t})

Init ==
    /\ records \in InitStores
    /\ nextId = [t \in {"SCP", "PERSONNEL"} |-> RowCount(records, t) + 1]
    /\ chunks = {}
    /\ nextChunk = 1
    /\ index_file = NoFile
    /\ cache = NoCache
    /\ pass = IdlePass
    /\ last = "none"
    /\ edits = 0
    /\ passes = 0
    /\ search = NoSearch
    /\ npass = IdlePass
    /\ chunker = NoChunker
    /\ snap = NoSnap
    /\ txn = NoTxn
    /\ removal = NoRemoval
    /\ writer = NoWriter
    /\ loader = NoLoader

----------------------------------------------------------------------------
(* Record Store writes (database_insertions.py, database_updates.py,       *)
(* database_delete.py); explored between passes                            *)

\* scp_code is the designation of an anomaly and stays unique among the SCP
\* rows; the display code of a PERSONNEL row (callsign, or the name when
\* there is no callsign) may be that of another row
CodeFree(rs, t, code) ==
    t = "SCP" => \A r \in rs : r.type = "SCP" => r.code # code

\* insert_scp, insert_personnel
InsertEntity(t, code, ntok) ==
    /\ search.pc = "idle"
    /\ pass.pc = "idle"
    /\ edits < MaxEdits
    /\ nextId[t] <= MaxId
    /\ CodeFree(records, t, code)
    /\ records' = records \cup
           {[type |-> t, id |-> nextId[t], code |-> code, ntok |-> ntok]}
    /\ nextId' = [nextId EXCEPT ![t] = @ + 1]
    /\ edits' = edits + 1
    /\ last' = "none"
    /\ UNCHANGED <<chunks, nextChunk, index_file, cache, pass, passes>>
    /\ UNCHANGED <<search, others>>

\* update_scp(scp_code=...), update_personnel(callsign=...)
UpdateCode(r, code) ==
    /\ search.pc = "idle"
    /\ pass.pc = "idle"
    /\ edits < MaxEdits
    /\ code # r.code
    /\ CodeFree(records, r.type, code)
    /\ records' = (records \ {r}) \cup {[r EXCEPT !.code = code]}
    /\ edits' = edits + 1
    /\ last' = "none"
    /\ UNCHANGED <<nextId, chunks, nextChunk, index_file, cache, pass, passes>>
    /\ UNCHANGED <<search, others>>

\* delete_scp, delete_personnel
DeleteEntity(r) ==
    /\ search.pc = "idle"
    /\ pass.pc = "idle"
    /\ edits < MaxEdits
    /\ records' = records \ {r}
    /\ edits' = edits + 1
    /\ last' = "none"
    /\ UNCHANGED <<nextId, chunks, nextChunk, index_file, cache, pass, passes>>
    /\ UNCHANGED <<search, others>>

----------------------------------------------------------------------------
(* update_vector_store, run by the sync script (__main__) *)

\* lines 170-218: execute_query(...) or [] gives no row for a table whose
\* read returned the error value None
ReadEntries(rs, unread) == AllEntries({r \in rs : r.type \notin unread})

\* lines 166-232: snapshot, diff, Remove (committed when its block exits);
\* unread holds the tables whose SELECT failed
PassBegun(entries, unread) ==
    /\ LET processed == ProcessedCodes(chunks)
           to_add == ToAdd(entries, processed)
           to_remove == ToRemove(processed, CurrentCodes(entries))
       IN /\ chunks' = DeleteByCodes(chunks, to_remove)
          /\ pass' = [pc |-> IF to_add # <<>> THEN "add" ELSE "rebuild",
                      entries |-> entries, processed |-> processed,
                      to_add |-> to_add, to_remove |-> to_remove,
                      pending |-> ChunkMetas(to_add), chunks0 |-> chunks,
                      prev |-> last, rebuilt |-> FALSE, unread |-> unread]
    /\ passes' = passes + 1
    /\ UNCHANGED <<records, nextId, nextChunk, index_file, cache, last, edits>>
    /\ UNCHANGED <<search, others>>

\* a pass whose reads all succeed
StartPass ==
    /\ search.pc = "idle"
    /\ pass.pc = "idle"
    /\ passes < MaxPasses
    /\ PassBegun(AllEntries(records), {})

\* a pass in which the SELECT of the tables in unread fails
StartPassUnread(unread) ==
    /\ search.pc = "idle"
    /\ pass.pc = "idle"
    /\ passes < MaxPasses
    /\ PassBegun(ReadEntries(records, unread), unread)

\* lines 252-266 and 268-281: encode one batch, INSERT its rows, commit
AddBatch ==
    /\ search.pc = "idle"
    /\ pass.pc = "add"
    /\ LET n == Min(BATCH_SIZE, Len(pass.pending))
           batch == SubSeq(pass.pending, 1, n)
           rest == SubSeq(pass.pending, n + 1, Len(pass.pending))
       IN /\ chunks' = chunks \cup InsertBatch(batch, nextChunk)
          /\ nextChunk' = nextChunk + n
          /\ pass' = [pass EXCEPT !.pending = rest,
                                  !.pc = IF rest = <<>> THEN "rebuild" ELSE "add"]
    /\ UNCHANGED <<records, nextId, index_file, cache, last, edits, passes>>
    /\ UNCHANGED <<search, others>>

\* a failed batch whose rows stay
FailedBatchKept(batch, next) == InsertBatch(batch, next)

\* the rows left by a batch whose encode raises: encode (lines 253, 269)
\* comes before the first INSERT of the batch, and get_cursor closes the
\* connection without a commit (db_connection.py lines 37-39)
FailedBatch(batch, next) == {}

\* lines 253 and 269: embedder.encode raises on the batch at hand
EmbedFail ==
    /\ search.pc = "idle"
    /\ pass.pc = "add"
    /\ chunks' = chunks \cup
           FailedBatch(SubSeq(pass.pending, 1,
                              Min(BATCH_SIZE, Len(pass.pending))), nextChunk)
    /\ pass' = [pass EXCEPT !.pc = "failed"]
    /\ UNCHANGED <<records, nextId, nextChunk, index_file, cache, last, edits,
                   passes>>
    /\ UNCHANGED <<search, others>>

\* the exception leaves update_vector_store: no rebuild, no further batch
PassRaise ==
    /\ search.pc = "idle"
    /\ pass.pc = "failed"
    /\ pass' = IdlePass
    /\ last' = "crashed_add"
    /\ UNCHANGED <<records, nextId, chunks, nextChunk, index_file, cache,
                   edits, passes>>
    /\ UNCHANGED <<search, others>>

\* lines 283-284: the rebuild, when the pass changed something or no artifact
\* exists; the script's own _hnsw_index is not the serving process's
RebuildStep ==
    /\ search.pc = "idle"
    /\ pass.pc = "rebuild"
    /\ LET needed == pass.to_add # <<>> \/ pass.to_remove # {}
                         \/ ~index_file.exists
       IN IF needed /\ RebuildRaises(chunks)
          THEN /\ pass' = IdlePass
               /\ last' = "crashed"
               /\ UNCHANGED index_file
          ELSE /\ index_file' = IF needed THEN RebuiltFile(chunks, index_file)
                                ELSE index_file
               /\ pass' = [pass EXCEPT !.pc = "done", !.rebuilt = needed]
               /\ UNCHANGED last
    /\ UNCHANGED <<records, nextId, chunks, nextChunk, cache, edits, passes>>
    /\ UNCHANGED <<search, others>>

\* line 286: the pass returns
FinishPass ==
    /\ search.pc = "idle"
    /\ pass.pc = "done"
    /\ pass' = IdlePass
    /\ last' = "complete"
    /\ UNCHANGED <<records, nextId, chunks, nextChunk, index_file, cache,
                   edits, passes>>
    /\ UNCHANGED <<search, others>>

\* the process is killed between two commits; what is committed stays
CrashPass ==
    /\ search.pc = "idle"
    /\ pass.pc \in {"add", "rebuild"}
    /\ last' = IF pass.pc = "add" THEN "crashed_add" ELSE "crashed"
    /\ pass' = IdlePass
    /\ UNCHANGED <<records, nextId, chunks, nextChunk, index_file, cache,
                   edits, passes>>
    /\ UNCHANGED <<search, others>>

----------------------------------------------------------------------------
(* perform_semantic_search(query, topk), one call from the serving process *)

Queries ==
    {NoQuery,
     [kind |-> "code", digits |-> <<"1", "0", "0">>],
     [kind |-> "code", digits |-> <<"0", "1", "0", "0">>]}

TopKs == {1, 2}

\* the call returns: what it leaves in the stores and what the caller gets;
\* knn is the set of labels knn_query returned (empty when the call did not
\* get there) and labels the content of the index they came from
Returned(q, topk, fail, path, result, exc, st, knn, ranked) ==
    /\ chunks' = st.chunks
    /\ nextChunk' = st.next
    /\ index_file' = st.file
    /\ cache' = st.cache
    /\ passes' = IF st.ran = "no" THEN passes ELSE passes + 1
    /\ last' = IF st.ran = "no" THEN last ELSE st.ran
    /\ search' = [pc |-> "returned", query |-> q, topk |-> topk,
                  fail |-> fail, path |-> path,
                  result |-> IF exc = "none" THEN result ELSE <<>>,
                  raised |-> exc # "none" /\ ~Handles(exc), exc |-> exc,
                  pristine |-> chunks = {} /\ ~index_file.exists /\ passes = 0,
                  ran |-> st.ran, ranked |-> ranked,
                  labels |-> IF knn = {} THEN <<>> ELSE st.labels,
                  knn |-> knn]
    /\ UNCHANGED <<records, nextId, pass, edits, others>>

\* lines 340-396: rerank the candidates and walk them
Rerank(q, topk, fail, pre, L, cand, sp) ==
    IF cand = {}
    THEN Returned(q, topk, fail, "retrieval", <<>>, "none", pre, L, <<>>)
    ELSE IF fail = "reranker"
    THEN Returned(q, topk, fail, "retrieval", <<>>, "reranker", pre, L, <<>>)
    ELSE Returned(q, topk, fail, "retrieval",
                  Walk(Ranked(pre.chunks, cand, sp), {}, <<>>, topk), "none",
                  pre, L, Ranked(pre.chunks, cand, sp))

\* lines 308-396: the retrieval path on the index Prepare left; count is
\* get_current_count() and query_k the number of neighbours asked for
Retrieve(q, topk, fail, pre, count, query_k) ==
    IF pre.stop
    THEN Returned(q, topk, fail, "retrieval", <<>>, pre.exc, pre, {}, <<>>)
    ELSE IF fail = "embedder" \/ (fail = "embedder_mid" /\ pre.used > 0)
    THEN Returned(q, topk, fail, "retrieval", <<>>, "embedder", pre, {}, <<>>)
    ELSE IF fail = "db"
    THEN Returned(q, topk, fail, "retrieval", <<>>, "db", pre, {}, <<>>)
    ELSE \E L \in KSubsets(0..(count - 1), query_k) :
         \E kp \in KeywordProfiles : \E sp \in ScoreProfiles :
             Rerank(q, topk, fail, pre, L,
                    LabelToChunk(pre.chunks, L)
                        \cup KeywordRows(pre.chunks, kp, topk),
                    sp)

\* the stores of a call that does not touch them
AsIs ==
    [stop |-> TRUE, exc |-> "none", labels |-> <<>>, chunks |-> chunks,
     next |-> nextChunk, file |-> index_file, cache |-> cache, ran |-> "no",
     used |-> 0]

RetrieveOn(q, topk, fail, pre) ==
    Retrieve(q, topk, fail, pre, Len(pre.labels),
             Min(topk * 2, Len(pre.labels)))

Search(q, topk, fail) ==
    /\ search.pc = "idle"
    /\ pass.pc = "idle"
    /\ passes < MaxPasses
    /\ LET hit == IF ScpMatch(q) /\ fail # "db"
                  THEN FastPathRows(records, q) ELSE {}
       IN IF hit # {}
          THEN \E r \in hit :
                   Returned(q, topk, fail, "fast", FastResult(r), "none",
                            AsIs, {}, <<>>)
          ELSE RetrieveOn(q, topk, fail,
                          Prepare(records, chunks, nextChunk, index_file,
                                  cache, fail))

\* the caller has the result; the next call starts from the stores as left
SearchReturn ==
    /\ search.pc = "returned"
    /\ search' = NoSearch
    /\ UNCHANGED <<records, nextId, chunks, nextChunk, index_file, cache, pass,
                   last, edits, passes, others>>

----------------------------------------------------------------------------

SyncStep ==
    \/ StartPass
    \/ AddBatch
    \/ EmbedFail
    \/ PassRaise
    \/ RebuildStep
    \/ FinishPass
    \/ CrashPass

\* the sync script and the Record Store writes
Next ==
    \/ \E t \in {"SCP", "PERSONNEL"} : \E code \in CodesOf(t) :
           \E ntok \in TextLens : InsertEntity(t, code, ntok)
    \/ \E r \in records : \E code \in CodesOf(r.type) : UpdateCode(r, code)
    \/ \E r \in records : DeleteEntity(r)
    \/ SyncStep

Spec == Init /\ [][Next]_vars

\* the sync script, deletions and the search calls of the serving process
NextSearch ==
    \/ \E r \in records : DeleteEntity(r)
    \/ SyncStep
    \/ \E q \in Queries : \E topk \in TopKs : \E fail \in Failures :
           Search(q, topk, fail)
    \/ SearchReturn

SearchSpec == Init /\ [][NextSearch]_vars

\* the sync script when a Record Store read may fail
NextRead ==
    \/ SyncStep
    \/ \E t \in {"SCP", "PERSONNEL"} : StartPassUnread({t})
    \/ StartPassUnread({"SCP", "PERSONNEL"})

ReadSpec == Init /\ [][NextRead]_vars

----------------------------------------------------------------------------
(* chunk_text called on any text under any configuration *)

\* the characters of a text: two letters and whitespace
Alphabet == {"a", "b", " "}

Texts == UNION {[1..n -> Alphabet] : n \in 0..MaxTextLen}

ChunkInit ==
    /\ records = {}
    /\ nextId = [t \in {"SCP", "PERSONNEL"} |-> 1]
    /\ chunks = {}
    /\ nextChunk = 1
    /\ index_file = NoFile
    /\ cache = NoCache
    /\ pass = IdlePass
    /\ last = "none"
    /\ edits = 0
    /\ passes = 0
    /\ search = NoSearch
    /\ npass = IdlePass
    /\ writer = NoWriter
    /\ loader = NoLoader
    /\ snap = NoSnap
    /\ txn = NoTxn
    /\ removal = NoRemoval
    /\ \E text \in Texts : \E size \in 1..MaxChunkSize :
           \E overlap \in 0..MaxChunkOverlap :
               chunker = [pc |-> "called", text |-> text, size |-> size,
                          overlap |-> overlap, raised |-> FALSE,
                          chunks |-> <<>>]

\* lines 95-104: the call returns its chunks or raises
ChunkText ==
    /\ chunker.pc = "called"
    /\ chunker' =
           [chunker EXCEPT
               !.pc = "returned",
               !.raised = ChunkTextOf(chunker.text, chunker.size,
                                      chunker.overlap).raised,
               !.chunks = ChunkTextOf(chunker.text, chunker.size,
                                      chunker.overlap).chunks]
    /\ UNCHANGED <<records, nextId, chunks, nextChunk, index_file, cache,
                   pass, last, edits, passes, search, npass, writer, loader,
                   snap, txn, removal>>

ChunkSpec == ChunkInit /\ [][ChunkText]_vars

----------------------------------------------------------------------------
(* update_vector_store run by a search (line 313) while the sync script    *)
(* runs its own pass: nothing in the code makes one wait for the other     *)

\* lines 309-313, then 166-232 of the pass the search starts: the index the
\* search loaded is empty, so it takes its own snapshot and diff
NestedFrom(ld) ==
    /\ ld.ok
    /\ Len(ld.labels) = 0
    /\ index_file' = ld.file
    /\ cache' = ld.cache
    /\ LET entries == AllEntries(records)
           processed == ProcessedCodes(chunks)
           to_add == ToAdd(entries, processed)
           to_remove == ToRemove(processed, CurrentCodes(entries))
       IN /\ chunks' = DeleteByCodes(chunks, to_remove)
          /\ npass' = [pc |-> IF to_add # <<>> THEN "add" ELSE "rebuild",
                       entries |-> entries, processed |-> processed,
                       to_add |-> to_add, to_remove |-> to_remove,
                       pending |-> ChunkMetas(to_add), chunks0 |-> chunks,
                       prev |-> last, rebuilt |-> FALSE, unread |-> {}]

NestedStart ==
    /\ npass.pc = "idle"
    /\ passes < MaxPasses
    /\ NestedFrom(LoadIndex(chunks, index_file, cache, FALSE, FALSE))
    /\ passes' = passes + 1
    /\ UNCHANGED <<records, nextId, nextChunk, pass, last, edits, search,
                   chunker, writer, loader, snap, txn,
                   removal>>

\* lines 252-281 of the search's pass: one batch, committed
NestedAdd ==
    /\ npass.pc = "add"
    /\ LET n == Min(BATCH_SIZE, Len(npass.pending))
           batch == SubSeq(npass.pending, 1, n)
           rest == SubSeq(npass.pending, n + 1, Len(npass.pending))
       IN /\ chunks' = chunks \cup InsertBatch(batch, nextChunk)
          /\ nextChunk' = nextChunk + n
          /\ npass' = [npass EXCEPT !.pending = rest,
                                    !.pc = IF rest = <<>> THEN "rebuild"
                                           ELSE "add"]
    /\ UNCHANGED <<records, nextId, index_file, cache, pass, last, edits,
                   passes, search, chunker, writer, loader, snap, txn,
                   removal>>

\* lines 283-286 of the search's pass: the rebuild runs in the serving
\* process, so it resets that process's _hnsw_index
NestedRebuild ==
    /\ npass.pc = "rebuild"
    /\ LET needed == npass.to_add # <<>> \/ npass.to_remove # {}
                         \/ ~index_file.exists
       IN /\ index_file' = IF needed THEN RebuiltFile(chunks, index_file)
                           ELSE index_file
          /\ cache' = IF needed THEN RebuiltCache(chunks, cache) ELSE cache
          /\ last' = IF needed /\ RebuildRaises(chunks) THEN "crashed"
                     ELSE "complete"
    /\ npass' = IdlePass
    /\ UNCHANGED <<records, nextId, chunks, nextChunk, pass, edits, passes,
                   search, chunker, writer, loader, snap, txn,
                   removal>>

\* the sync script, serialized by its caller, beside a search that syncs
NextConc ==
    \/ SyncStep
    \/ NestedStart
    \/ NestedAdd
    \/ NestedRebuild

ConcSpec == Init /\ [][NextConc]_vars

----------------------------------------------------------------------------
(* rebuild_index_from_mysql and load_hnsw_index step by step: a rebuild in  *)
(* one process (the sync script) beside a load in the serving process       *)

\* what the read of line 125 meets: the rows, no connection (get_cursor
\* raises Exception), or a query error (execute_query returns None)
Reads == {"rows", "noconn", "error"}

\* an artifact that load_index cannot read
CorruptFile == [exists |-> TRUE, labels |-> <<>>, corrupt |-> TRUE]

IsCorrupt(file) == "corrupt" \in DOMAIN file

\* lines 120-158: whether the call goes on to save_index and with which
\* labels, or returns (line 128), or raises (np.vstack of no vector), and
\* whether it reaches line 158. execute_query raises when there is no
\* connection and returns None on a mysql Error, which line 130 takes for
\* an empty table
RebuildOutcome(cs, read) ==
    IF read = "noconn"
    THEN [saves |-> FALSE, raises |-> FALSE, failed |-> TRUE, resets |-> FALSE,
          labels |-> <<>>]
    ELSE IF read = "error" \/ cs = {}
    THEN [saves |-> TRUE, raises |-> FALSE, failed |-> read = "error",
          resets |-> FALSE, labels |-> <<>>]
    ELSE IF Vectors(cs) = <<>>
    THEN [saves |-> FALSE, raises |-> TRUE, failed |-> TRUE, resets |-> FALSE,
          labels |-> <<>>]
    ELSE [saves |-> TRUE, raises |-> FALSE, failed |-> FALSE, resets |-> TRUE,
          labels |-> IndexLabels(cs)]

\* the artifact a rebuild leaves
SavedFile(o, file) ==
    IF o.saves THEN [exists |-> TRUE, labels |-> o.labels] ELSE file

\* lines 157-158 in the process that rebuilds
ResetCache(o, c) == IF o.resets THEN NoCache ELSE c

\* what the index steps leave alone
indexOthers == <<records, nextId, chunks, nextChunk, pass, last, edits,
                 passes, search, npass, chunker, snap, txn, removal>>

\* rebuild_index_from_mysql in another process (the sync script), whose
\* _hnsw_index is its own: lines 120-152, then save_index opens INDEX_PATH
\* for writing (lines 135, 154)
RebuildFrom(o, read) ==
    writer' = [pc |-> IF o.saves THEN "saving" ELSE "returned",
               read |-> read, failed |-> o.failed, labels |-> o.labels,
               before |-> index_file]

RebuildBegin(read) ==
    /\ writer.pc = "idle"
    /\ loader.pc \in {"idle", "check", "load", "returned"}
    /\ RebuildFrom(RebuildOutcome(chunks, read), read)
    /\ UNCHANGED <<index_file, cache, loader, indexOthers>>

\* save_index has written the whole file
SaveEnd ==
    /\ writer.pc = "saving"
    /\ index_file' = [exists |-> TRUE, labels |-> writer.labels]
    /\ writer' = [writer EXCEPT !.pc = "returned"]
    /\ UNCHANGED <<cache, loader, indexOthers>>

RebuildReturn ==
    /\ writer.pc = "returned"
    /\ writer' = NoWriter
    /\ UNCHANGED <<index_file, cache, loader, indexOthers>>

\* load_hnsw_index is called; db is what its own rebuilds will meet
LoadCall(db) ==
    /\ loader.pc = "idle"
    /\ loader' = [pc |-> "check", db |-> db, depth |-> 0, loads |-> 0,
                  retries |-> 0, read |-> "none", result |-> "none"]
    /\ UNCHANGED <<index_file, cache, writer, indexOthers>>

\* lines 76-81: no artifact, so rebuild; still none, so return None
MissingRebuilt(o) ==
    /\ index_file' = SavedFile(o, index_file)
    /\ cache' = ResetCache(o, cache)
    /\ loader' = [loader EXCEPT
                     !.pc = IF o.saves THEN "load" ELSE "returned",
                     !.result = IF o.raises THEN "raised"
                                ELSE IF o.saves THEN "none" ELSE "no_index"]

\* lines 73-81
LoadCheck ==
    /\ loader.pc = "check"
    /\ IF cache.loaded
       THEN /\ loader' = [loader EXCEPT !.pc = "returned", !.result = "index"]
            /\ UNCHANGED <<index_file, cache>>
       ELSE IF index_file.exists \/ writer.pc = "saving"
       THEN /\ loader' = [loader EXCEPT !.pc = "load"]
            /\ UNCHANGED <<index_file, cache>>
       ELSE /\ writer.pc = "idle"
            /\ MissingRebuilt(RebuildOutcome(chunks, loader.db))
    /\ UNCHANGED <<writer, indexOthers>>

\* lines 83-90: load_index reads the file; ok is whether it accepts it
Attempted(read, ok, labels) ==
    /\ loader' = [loader EXCEPT !.loads = @ + 1, !.read = read,
                                 !.pc = IF ok THEN "returned" ELSE "failed",
                                 !.result = IF ok THEN "index" ELSE @]
    /\ cache' = IF ok THEN [loaded |-> TRUE, labels |-> labels] ELSE cache

\* a file that save_index is still writing holds part of the new index:
\* load_index may reject it or load what is there
LoadAttempt(ok) ==
    /\ loader.pc = "load"
    /\ IF writer.pc = "saving"
       THEN Attempted("partial", ok,
                      SubSeq(writer.labels, 1, Len(writer.labels) \div 2))
       ELSE Attempted("whole", ~IsCorrupt(index_file), index_file.labels)
    /\ UNCHANGED <<index_file, writer, indexOthers>>

\* lines 91-92: rebuild, then load_hnsw_index() again, one frame deeper; the
\* interpreter raises RecursionError past its recursion limit
Retried(o) ==
    /\ index_file' = SavedFile(o, index_file)
    /\ cache' = ResetCache(o, cache)
    /\ loader' = [loader EXCEPT
                     !.retries = @ + 1,
                     !.pc = IF o.raises \/ loader.depth = MaxDepth
                            THEN "returned" ELSE "check",
                     !.result = IF o.raises \/ loader.depth = MaxDepth
                                THEN "raised" ELSE @,
                     !.depth = IF o.raises \/ loader.depth = MaxDepth
                               THEN @ ELSE @ + 1]

LoadRetry ==
    /\ loader.pc = "failed"
    /\ writer.pc = "idle"
    /\ Retried(RebuildOutcome(chunks, loader.db))
    /\ UNCHANGED <<writer, indexOthers>>

LoadReturn ==
    /\ loader.pc = "returned"
    /\ loader' = NoLoader
    /\ UNCHANGED <<index_file, cache, writer, indexOthers>>

\* the Chunk Store of n rows, the blobs of the rows in bad do not unpickle
StoredRows(n, bad) ==
    {[chunk_id |-> i, ref_id |-> 1, ref_type |-> "SCP", scp_code |-> SCP100,
      chunk_index |-> i - 1, blob_ok |-> i \notin bad] : i \in 1..n}

IndexInit ==
    /\ records = {}
    /\ nextId = [t \in {"SCP", "PERSONNEL"} |-> 1]
    /\ \E n \in 0..MaxRows : \E bad \in SUBSET (1..n) :
           /\ chunks = StoredRows(n, bad)
           /\ nextChunk = n + 1
    /\ index_file \in {NoFile, CorruptFile, [exists |-> TRUE, labels |-> <<>>],
                       RebuiltFile(chunks, NoFile)}
    /\ cache = NoCache
    /\ pass = IdlePass
    /\ last = "none"
    /\ edits = 0
    /\ passes = 0
    /\ search = NoSearch
    /\ npass = IdlePass
    /\ chunker = NoChunker
    /\ snap = NoSnap
    /\ txn = NoTxn
    /\ removal = NoRemoval
    /\ writer = NoWriter
    /\ loader = NoLoader

NextIndex ==
    \/ \E read \in Reads : RebuildBegin(read)
    \/ SaveEnd
    \/ RebuildReturn
    \/ \E db \in Reads : LoadCall(db)
    \/ LoadCheck
    \/ \E ok \in BOOLEAN : LoadAttempt(ok)
    \/ LoadRetry
    \/ LoadReturn

IndexSpec == IndexInit /\ [][NextIndex]_vars

----------------------------------------------------------------------------
(* update_vector_store, lines 178-218: the snapshot entry of one row of    *)
(* each entity table; a column value is NULL (None) or a string            *)

Null == [null |-> TRUE, text |-> <<>>]
Str(t) == [null |-> FALSE, text |-> t]

\* what an f-string makes of a value: None is rendered "None"
Fmt(v) == IF v.null THEN <<"N", "o", "n", "e">> ELSE v.text

\* truth value of a column value: None and '' are false
Truthy(v) == ~v.null /\ v.text # <<>>

\* dict.get(key, default): the default only when the key is missing; the
\* rows of a dictionary cursor hold every selected column, NULL as None
Get(row, key, default) == IF key \in DOMAIN row THEN row[key] ELSE default

EntityTypes == {"SCP", "PERSONNEL", "MTF", "FACILITY", "INCIDENT"}

\* the entry's 'code' for a row of table t with primary key id
DisplayCode(t, id, row) ==
    IF t = "SCP" THEN row["scp_code"]
    ELSE IF t = "PERSONNEL"
    THEN IF Truthy(Get(row, "callsign", Null))
         THEN Get(row, "callsign", Null)
         ELSE Str(Strip(Fmt(Get(row, "given_name", Str(<<>>))) \o <<" ">>
                        \o Fmt(Get(row, "surname", Str(<<>>)))))
    ELSE IF t = "MTF" THEN row["designation"]
    ELSE IF t = "FACILITY"
    THEN Get(row, "code", Str(<<"F", "a", "c", "i", "l", "i", "t", "y", "-">>
                              \o IntDigits(id)))
    ELSE Str(<<"I", "N", "C", "-">> \o IntDigits(id))

\* the column update_vector_store takes the code from
Designation(t, row) ==
    IF t = "SCP" THEN row["scp_code"]
    ELSE IF t = "PERSONNEL" THEN row["callsign"]
    ELSE IF t = "MTF" THEN row["designation"]
    ELSE IF t = "FACILITY" THEN row["code"]
    ELSE Null

\* column values: PERSONNEL.callsign and FACILITY.code are the columns
\* whose absence the code provides for
Names == {Str(<<"A">>), Str(<<"B">>)}
Nullable == {Null, Str(<<>>), Str(<<"A">>)}

\* the selected columns of a row of table t (lines 170-174)
RowsOf(t) ==
    IF t = "SCP" THEN [scp_code : Names]
    ELSE IF t = "PERSONNEL"
    THEN [callsign : Nullable, given_name : Nullable, surname : Nullable]
    ELSE IF t = "MTF" THEN [designation : Names]
    ELSE IF t = "FACILITY" THEN [code : Nullable]
    ELSE [title : Nullable]

CodeInit ==
    /\ records = {}
    /\ nextId = [t \in {"SCP", "PERSONNEL"} |-> 1]
    /\ chunks = {}
    /\ nextChunk = 1
    /\ index_file = NoFile
    /\ cache = NoCache
    /\ pass = IdlePass
    /\ last = "none"
    /\ edits = 0
    /\ passes = 0
    /\ search = NoSearch
    /\ npass = IdlePass
    /\ chunker = NoChunker
    /\ writer = NoWriter
    /\ loader = NoLoader
    /\ txn = NoTxn
    /\ removal = NoRemoval
    /\ \E t \in EntityTypes : \E id \in 1..MaxId : \E row \in RowsOf(t) :
           snap = [pc |-> "row", type |-> t, id |-> id, row |-> row,
                   code |-> Null]

\* one turn of the loops of lines 178-218
BuildEntry ==
    /\ snap.pc = "row"
    /\ snap' = [snap EXCEPT !.pc = "entry",
                            !.code = DisplayCode(snap.type, snap.id, snap.row)]
    /\ UNCHANGED <<records, nextId, chunks, nextChunk, index_file, cache,
                   pass, last, edits, passes, search, npass, chunker, writer,
                   loader, txn, removal>>

CodeSpec == CodeInit /\ [][BuildEntry]_vars

----------------------------------------------------------------------------
(* execute_transaction (db_connection.py lines 83-110) called by           *)
(* update_scp_assignment and transfer_scp_to_facility: txn.table is the    *)
(* committed SCP_ASSIGNMENT rows of one anomaly, in insertion order, and   *)
(* txn.work the rows as the open connection sees them                      *)

Callers == {"update_scp_assignment", "transfer_scp_to_facility"}

Facilities == {1, 2}

\* where the call fails: no connection, an Error raised by the first or the
\* second cursor.execute, or by connection.commit
TxnFailures == {"none", "noconn", "query1", "query2", "commit"}

\* UPDATE SCP_ASSIGNMENT SET end_date = ... WHERE scp_id = %s AND end_date IS NULL
CloseCurrent(tbl) == [i \in DOMAIN tbl |-> [tbl[i] EXCEPT !.open = FALSE]]

\* INSERT INTO SCP_ASSIGNMENT (scp_id, facility_id, ...) VALUES (...)
InsertNew(tbl, fac) == Append(tbl, [fac |-> fac, open |-> TRUE])

\* queries[k] of both callers: the close, then the insert
RunQuery(k, tbl, fac) == IF k = 1 THEN CloseCurrent(tbl) ELSE InsertNew(tbl, fac)

\* the query or commit at which the failure strikes
FailsAt(fail, step) ==
    \/ fail = "query1" /\ step = 1
    \/ fail = "query2" /\ step = 2
    \/ fail = "commit" /\ step = 3

\* a rollback that keeps what the queries did
RolledBackKept(work, table) == work

\* connection.rollback(): the committed rows are what they were
RolledBack(work, table) == table

\* the histories the table may hold when a call starts: every assignment
\* closed, or the latest one open
Histories ==
    UNION {{h \in [1..n -> [fac : Facilities, open : BOOLEAN]] :
               \A i \in 1..n : h[i].open => i = n} : n \in 0..2}

TxnInit ==
    /\ records = {}
    /\ nextId = [t \in {"SCP", "PERSONNEL"} |-> 1]
    /\ chunks = {}
    /\ nextChunk = 1
    /\ index_file = NoFile
    /\ cache = NoCache
    /\ pass = IdlePass
    /\ last = "none"
    /\ edits = 0
    /\ passes = 0
    /\ search = NoSearch
    /\ npass = IdlePass
    /\ chunker = NoChunker
    /\ writer = NoWriter
    /\ loader = NoLoader
    /\ snap = NoSnap
    /\ removal = NoRemoval
    /\ \E h \in Histories : txn = [pc |-> "idle", table |-> h]

txnOthers == <<records, nextId, chunks, nextChunk, index_file, cache, pass,
               last, edits, passes, search, npass, chunker, writer, loader,
               snap, removal>>

\* lines 93-98: get_connection, return False when there is none
TxnCall(caller, fac, fail) ==
    /\ txn.pc = "idle"
    /\ Len(txn.table) < MaxAssign
    /\ txn' = [pc |-> IF fail = "noconn" THEN "returned" ELSE "exec",
               caller |-> caller, fac |-> fac, fail |-> fail,
               table |-> txn.table, before |-> txn.table, work |-> txn.table,
               k |-> 0, result |-> FALSE]
    /\ UNCHANGED txnOthers

\* lines 99-100: the next cursor.execute, which may raise Error
TxnExecute ==
    /\ txn.pc = "exec"
    /\ txn' = IF FailsAt(txn.fail, txn.k + 1)
              THEN [txn EXCEPT !.pc = "rollback"]
              ELSE [txn EXCEPT
                       !.work = RunQuery(txn.k + 1, txn.work, txn.fac),
                       !.k = @ + 1,
                       !.pc = IF txn.k + 1 = 2 THEN "commit" ELSE "exec"]
    /\ UNCHANGED txnOthers

\* lines 101-104: commit, close, return True
TxnCommit ==
    /\ txn.pc = "commit"
    /\ txn' = IF FailsAt(txn.fail, 3)
              THEN [txn EXCEPT !.pc = "rollback"]
              ELSE [txn EXCEPT !.table = txn.work, !.pc = "returned",
                               !.result = TRUE]
    /\ UNCHANGED txnOthers

\* lines 105-110: except Error: rollback, close, return False
TxnRollback ==
    /\ txn.pc = "rollback"
    /\ txn' = [txn EXCEPT !.table = RolledBack(txn.work, txn.table),
                          !.work = RolledBack(txn.work, txn.table),
                          !.pc = "returned", !.result = FALSE]
    /\ UNCHANGED txnOthers

\* the caller has the result
TxnReturn ==
    /\ txn.pc = "returned"
    /\ txn' = [pc |-> "idle", table |-> txn.table]
    /\ UNCHANGED txnOthers

NextTxn ==
    \/ \E caller \in Callers : \E fac \in Facilities :
           \E fail \in TxnFailures : TxnCall(caller, fac, fail)
    \/ TxnExecute
    \/ TxnCommit
    \/ TxnRollback
    \/ TxnReturn

TxnSpec == TxnInit /\ [][NextTxn]_vars

----------------------------------------------------------------------------
(* remove_from_vector_store (lines 160-164)                                *)

\* how the DELETE given to execute_query ends: committed when the block of
\* get_cursor exits; an Error raised in the block (by cursor.execute, or by
\* cursor.fetchall when the connector refuses to fetch from a statement
\* that has no result set) is rolled back by get_cursor and execute_query
\* returns None; with no connection get_cursor raises Exception
Deletes == {"committed", "error", "noconn"}

AllCodes == CodesOf("SCP") \cup CodesOf("PERSONNEL")

\* DELETE FROM SCP_SEMANTIC_CHUNKS WHERE scp_code = %s
DeleteByCode(cs, code, del) ==
    IF del = "committed" THEN {c \in cs : c.scp_code # code} ELSE cs

\* lines 163-164: the call raises when the DELETE has no connection, else
\* it goes on to the rebuild whatever execute_query returned
Removed(code, del, read, left, o) ==
    /\ chunks' = left
    /\ index_file' = IF del = "noconn" THEN index_file
                     ELSE SavedFile(o, index_file)
    /\ cache' = IF del = "noconn" THEN cache ELSE ResetCache(o, cache)
    /\ removal' = [pc |-> "returned", code |-> code, del |-> del,
                   read |-> read, before |-> chunks, after |-> left,
                   file |-> IF del = "noconn" THEN index_file
                            ELSE SavedFile(o, index_file),
                   cache |-> IF del = "noconn" THEN cache
                             ELSE ResetCache(o, cache),
                   saved |-> del # "noconn" /\ o.saves,
                   raised |-> del = "noconn" \/ o.raises]

RemoveFromVectorStore(code, del, read) ==
    /\ removal.pc = "idle"
    /\ pass.pc = "idle"
    /\ (del = "noconn") = (read = "noconn")
    /\ Removed(code, del, read, DeleteByCode(chunks, code, del),
               RebuildOutcome(DeleteByCode(chunks, code, del), read))
    /\ UNCHANGED <<records, nextId, nextChunk, pass, last, edits, passes,
                   search, npass, chunker, writer, loader, snap, txn>>

\* the caller goes on
RemoveReturn ==
    /\ removal.pc = "returned"
    /\ removal' = NoRemoval
    /\ UNCHANGED <<records, nextId, chunks, nextChunk, index_file, cache,
                   pass, last, edits, passes, search, npass, chunker, writer,
                   loader, snap, txn>>

\* the sync script and calls of remove_from_vector_store between its passes
NextRemove ==
    \/ SyncStep
    \/ \E code \in AllCodes : \E del \in Deletes : \E read \in Reads :
           RemoveFromVectorStore(code, del, read)
    \/ RemoveReturn

RemoveSpec == Init /\ [][NextRemove]_vars

\* one process that loads the index (line 309 of a search) and calls
\* remove_from_vector_store: its rebuilds and its loads share _hnsw_index.
\* The Chunk Store holds the rows of one code and the artifact, when there
\* is one, was built from them
CacheInit ==
    /\ records = {}
    /\ nextId = [t \in {"SCP", "PERSONNEL"} |-> 1]
    /\ \E n \in 0..MaxRows :
           /\ chunks = StoredRows(n, {})
           /\ nextChunk = n + 1
    /\ index_file \in {NoFile, RebuiltFile(chunks, NoFile)}
    /\ cache = NoCache
    /\ pass = IdlePass
    /\ last = "none"
    /\ edits = 0
    /\ passes = 0
    /\ search = NoSearch
    /\ npass = IdlePass
    /\ chunker = NoChunker
    /\ writer = NoWriter
    /\ loader = NoLoader
    /\ snap = NoSnap
    /\ txn = NoTxn
    /\ removal = NoRemoval

\* what load_hnsw_index leaves (lines 71-92)
Served(ld) ==
    /\ index_file' = ld.file
    /\ cache' = ld.cache

\* load_hnsw_index() called by the process between two removals
ServeLoad(dbdown, loadfail) ==
    /\ removal.pc = "idle"
    /\ Served(LoadIndex(chunks, index_file, cache, dbdown, loadfail))
    /\ UNCHANGED <<records, nextId, chunks, nextChunk, pass, last, edits,
                   passes, search, npass, chunker, writer, loader, snap, txn,
                   removal>>

NextCache ==
    \/ \E dbdown \in BOOLEAN : \E loadfail \in BOOLEAN :
           ServeLoad(dbdown, loadfail)
    \/ \E code \in AllCodes : \E del \in Deletes : \E read \in Reads :
           RemoveFromVectorStore(code, del, read)
    \/ RemoveReturn

CacheSpec == CacheInit /\ [][NextCache]_vars

----------------------------------------------------------------------------
(* Properties *)

SameEntity(a, b) == a.type = b.type /\ a.id = b.id

\* the chunk rows of entity (t, id)
ChunksOf(cs, t, id) == {c \in cs : c.ref_type = t /\ c.ref_id = id}

\* C1: the list perform_semantic_search returns never holds two entries with
\* the same (type, id), for every query, topk and reachable store and index
C1_NoDuplicateEntity ==
    \A i, j \in DOMAIN search.result :
        SameEntity(search.result[i], search.result[j]) => i = j

\* a retrieval whose two best candidates are chunks of one entity and that
\* still returned two entities
C1_Witness ==
    /\ search.pc = "returned"
    /\ search.path = "retrieval"
    /\ Len(search.result) = 2
    /\ Len(search.ranked) >= 3
    /\ search.ranked[1].row.ref_type = search.ranked[2].row.ref_type
    /\ search.ranked[1].row.ref_id = search.ranked[2].row.ref_id

FirstSearch ==
    search.pc = "returned" /\ search.pristine /\ search.path = "retrieval"

SecondRun == pass.pc = "done" /\ pass.prev = "complete"

\* C3: a pass that follows a complete pass with no Record Store write in
\* between leaves the Chunk Store rows and the stored codes as the first left
\* them: nothing inserted, nothing deleted, no duplicate
C3_SyncIdempotent ==
    SecondRun =>
        /\ chunks = pass.chunks0
        /\ ProcessedCodes(chunks) = ProcessedCodes(pass.chunks0)
        /\ pass.to_add = <<>>
        /\ pass.to_remove = {}

C3_Witness ==
    /\ SecondRun
    /\ Cardinality(chunks) >= 3
    /\ Cardinality(records) >= 2

\* C4: a complete pass deletes every chunk whose stored code is no longer a
\* current code, inserts chunks only for the entities whose code was not
\* stored (all of their chunks), and leaves the other rows unchanged
C4_DiffCorrect ==
    pass.pc = "done" =>
        LET stored == ProcessedCodes(pass.chunks0)
            current == CurrentCodes(pass.entries)
        IN /\ \A c \in pass.chunks0 :
                  c \in chunks <=> c.scp_code \in current
           /\ \A c \in chunks \ pass.chunks0 :
                  c.scp_code \in current \ stored
           /\ \A i \in DOMAIN pass.entries :
                  LET e == pass.entries[i]
                      new == {c \in chunks \ pass.chunks0 :
                                 /\ c.ref_type = e.ref_type
                                 /\ c.ref_id = e.ref_id
                                 /\ c.scp_code = e.code}
                  IN IF e.code \in stored THEN new = {}
                     ELSE {c.chunk_index : c \in new}
                              = 0..(NumChunks(e.ntok) - 1)

\* stored codes {A, B, C}, current codes {B, C, D}
C4_Witness ==
    /\ pass.pc = "done"
    /\ LET stored == ProcessedCodes(pass.chunks0)
           current == CurrentCodes(pass.entries)
       IN /\ Cardinality(stored) = 3
          /\ Cardinality(current) = 3
          /\ Cardinality(stored \cap current) = 2

\* C5: when the query is a designation code and an SCP with exactly that
\* scp_code exists, the search returns exactly one result, that entity, with
\* the fixed top score, whatever other SCP codes exist
C5_FastPathExact ==
    (/\ search.pc = "returned"
     /\ search.query.kind = "code"
     /\ search.fail = "none"
     /\ \E r \in records : r.type = "SCP" /\ r.code = QueryText(search.query))
    => /\ Len(search.result) = 1
       /\ search.result[1].type = "SCP"
       /\ search.result[1].scp_code = QueryText(search.query)
       /\ search.result[1].score = FAST_PATH_SCORE
       /\ \E r \in records :
              /\ r.type = "SCP"
              /\ r.id = search.result[1].id
              /\ r.code = QueryText(search.query)

\* C6: after a complete pass the index artifact exists and its labels are
\* 0..N-1 for the N chunks of the Chunk Store, label i carrying the embedding
\* of the i-th chunk in ascending chunk_id order
C6_RebuildConsistent ==
    pass.pc = "done" =>
        /\ index_file.exists
        /\ index_file.labels =
               [i \in DOMAIN ChunksById(chunks) |-> ChunksById(chunks)[i].chunk_id]

\* C7: perform_semantic_search never propagates an exception: whatever step
\* fails, the caller gets a list, empty when the retrieval path failed
C7_NeverRaises ==
    search.pc = "returned" =>
        /\ ~search.raised
        /\ (search.exc # "none" => search.result = <<>>)

\* the reranker failed after candidates had been found
C7_Witness ==
    /\ search.pc = "returned"
    /\ search.fail = "reranker"
    /\ search.exc = "reranker"
    /\ chunks # {}

\* C8: a pass that runs to completion after a pass that crashed in its Add
\* phase (Record Store unchanged) leaves every entity with its complete
\* chunk set, chunk_index 0..n-1
C8_RerunCompletes ==
    (pass.pc = "done" /\ pass.prev = "crashed_add") =>
        \A r \in records :
            {c.chunk_index : c \in ChunksOf(chunks, r.type, r.id)}
                = 0..(NumChunks(r.ntok) - 1)

\* C9: after a complete pass no chunk refers to an entity that is absent
\* from the Record Store
C9_NoOrphanChunks ==
    pass.pc = "done" =>
        \A c \in chunks :
            \E r \in records : r.type = c.ref_type /\ r.id = c.ref_id

\* C10: in every committed state the chunk_index values of each entity are
\* exactly 0..n-1, no gap and no duplicate
C10_ContiguousIndexes ==
    \A c \in chunks :
        LET mine == ChunksOf(chunks, c.ref_type, c.ref_id)
        IN /\ {d.chunk_index : d \in mine} = 0..(Cardinality(mine) - 1)
           /\ \A d \in mine : d.chunk_index = c.chunk_index => d = c

\* two chunk rows of one entity with the same chunk_index
DoubleInsert(cs) ==
    \E c, d \in cs :
        /\ c # d
        /\ c.ref_type = d.ref_type
        /\ c.ref_id = d.ref_id
        /\ c.chunk_index = d.chunk_index

\* C11: when the callers of update_vector_store serialize their calls, at
\* most one pass is in flight at any time, searches running beside them, and
\* so no two passes insert chunks for the same entity
C11_OnePassInFlight ==
    /\ ~(pass.pc # "idle" /\ npass.pc # "idle")
    /\ ~DoubleInsert(chunks)

\* the tokens of the chunker's input
InputTokens == Split(Strip(chunker.text))

\* a chunk without its first n tokens
DropTokens(ws, n) == SubSeq(ws, n + 1, Len(ws))

\* the first chunk, then every later chunk without its first overlap tokens
RECURSIVE Reassembled(_, _)
Reassembled(cks, overlap) ==
    IF cks = <<>> THEN <<>>
    ELSE IF Len(cks) = 1 THEN Split(cks[1])
    ELSE Reassembled(SubSeq(cks, 1, Len(cks) - 1), overlap)
             \o DropTokens(Split(cks[Len(cks)]), overlap)

\* C12: with CHUNK_SIZE > CHUNK_OVERLAP, chunk_text raises nothing, every
\* chunk has at most CHUNK_SIZE tokens, and the first chunk followed by the
\* later chunks without their first CHUNK_OVERLAP tokens is the token
\* sequence of the input
C12_ChunksReassemble ==
    (chunker.pc = "returned" /\ chunker.size > chunker.overlap) =>
        /\ ~chunker.raised
        /\ \A k \in DOMAIN chunker.chunks :
               Len(Split(chunker.chunks[k])) <= chunker.size
        /\ Reassembled(chunker.chunks, chunker.overlap) = InputTokens

\* three chunks that overlap by one token
C12_Witness ==
    /\ chunker.pc = "returned"
    /\ chunker.size > chunker.overlap
    /\ chunker.overlap > 0
    /\ Len(chunker.chunks) >= 3
    /\ Len(InputTokens) >= 3

\* C13: chunk_text returns no chunk for an empty or whitespace-only text,
\* and exactly one chunk, the tokens of the input, for a text with fewer than
\* CHUNK_SIZE tokens (CHUNK_SIZE > CHUNK_OVERLAP)
C13_DegenerateCases ==
    (chunker.pc = "returned" /\ chunker.size > chunker.overlap) =>
        /\ InputTokens = <<>> => (chunker.chunks = <<>> /\ ~chunker.raised)
        /\ (InputTokens # <<>> /\ Len(InputTokens) < chunker.size) =>
               /\ ~chunker.raised
               /\ Len(chunker.chunks) = 1
               /\ Split(chunker.chunks[1]) = InputTokens

\* C14: with CHUNK_SIZE <= CHUNK_OVERLAP, chunk_text on a text that has
\* tokens ends with an error
C14_BadConfigFailsFast ==
    (/\ chunker.pc = "returned"
     /\ chunker.size <= chunker.overlap
     /\ InputTokens # <<>>)
    => chunker.raised

\* C15: an entity that is no longer in the Record Store when the search
\* fetches its title is skipped: no entry of the returned list refers to it
C15_VanishedEntitySkipped ==
    (search.pc = "returned" /\ search.path = "retrieval") =>
        \A i \in DOMAIN search.result :
            \E r \in records :
                r.type = search.result[i].type /\ r.id = search.result[i].id

\* C16: at every commit point of the Add phase each entity the pass adds has
\* none of its chunks or all of them in the Chunk Store
C16_NoPartialEntity ==
    pass.pc \in {"add", "rebuild", "done"} =>
        \A i \in DOMAIN pass.to_add :
            LET e == pass.to_add[i]
                mine == {c \in chunks \ pass.chunks0 :
                            /\ c.ref_type = e.ref_type
                            /\ c.ref_id = e.ref_id
                            /\ c.scp_code = e.code}
            IN \/ mine = {}
               \/ {c.chunk_index : c \in mine} = 0..(NumChunks(e.ntok) - 1)

\* C17: every label the search translates into a chunk_id (its position in
\* the ascending chunk_id scan) gives the chunk whose embedding was inserted
\* under that label when the index was built
C17_NoLabelDrift ==
    search.pc = "returned" =>
        \A l \in search.knn :
            l < Len(ChunksById(chunks)) =>
                ChunksById(chunks)[l + 1].chunk_id = search.labels[l + 1]

\* C18: a load that runs while rebuild_index_from_mysql is running reads the
\* complete previous artifact or the complete new one, never a file that is
\* being written
C18_AtomicReplace == loader.pc # "idle" => loader.read # "partial"

\* C19: when loading the artifact fails, load_hnsw_index rebuilds once and
\* then returns a loaded index or gives up: it does not rebuild and retry a
\* second time
C19_OneRebuildThenGiveUp == loader.pc # "idle" => loader.retries <= 1

\* C20: a rebuild whose read fails or returns an error result, or whose
\* build fails, leaves the readable artifact that was on disk as it was
C20_FailedRebuildKeepsFile ==
    (/\ writer.pc = "returned"
     /\ writer.failed
     /\ writer.before.exists
     /\ ~IsCorrupt(writer.before))
    => index_file = writer.before

\* C21: a pass that completes after a pass that ended without its rebuild
\* (Record Store unchanged in between) leaves an index artifact built from
\* the Chunk Store as it is: the rebuild that was missed is made
C21_RebuildRetried ==
    (pass.pc = "done" /\ pass.prev \in {"crashed", "crashed_add"}) =>
        /\ index_file.exists
        /\ index_file.labels = IndexLabels(chunks)

\* what a chunk row says of the chunk it stores
MetaOf(c) ==
    [ref_id |-> c.ref_id, ref_type |-> c.ref_type, code |-> c.scp_code,
     idx |-> c.chunk_index]

\* C22: when the embedder fails on a batch of the Add phase, the phase
\* stops, the Chunk Store holds the rows the Remove left and the chunks of
\* the batches embedded before, and no chunk of the failing batch
C22_EmbedderFailure ==
    pass.pc = "failed" =>
        LET metas == ChunkMetas(pass.to_add)
            done == Len(metas) - Len(pass.pending)
            failing == SubSeq(pass.pending, 1,
                              Min(BATCH_SIZE, Len(pass.pending)))
            kept == DeleteByCodes(pass.chunks0, pass.to_remove)
        IN /\ done % BATCH_SIZE = 0
           /\ kept \subseteq chunks
           /\ {MetaOf(c) : c \in chunks \ kept} = {metas[i] : i \in 1..done}
           /\ \A i \in DOMAIN failing :
                  \A c \in chunks : MetaOf(c) # failing[i]

\* the embedder failed on the second batch, after a committed first batch,
\* in a pass whose Remove kept rows of an earlier pass
C22_Witness ==
    /\ pass.pc = "failed"
    /\ Len(pass.pending) < Len(ChunkMetas(pass.to_add))
    /\ pass.pending # <<>>
    /\ DeleteByCodes(pass.chunks0, pass.to_remove) # {}

\* the scored candidate chunks of the entity of a result entry
CandidatesOf(entry) ==
    {k \in DOMAIN search.ranked :
        /\ search.ranked[k].row.ref_type = entry.type
        /\ search.ranked[k].row.ref_id = entry.id}

\* C23: the list the retrieval path returns is in non-increasing score
\* order, and the entry of each entity carries the highest score among the
\* candidate chunks of that entity
C23_BestFirst ==
    (search.pc = "returned" /\ search.path = "retrieval") =>
        /\ \A i, j \in DOMAIN search.result :
               i < j => search.result[i].score >= search.result[j].score
        /\ \A i \in DOMAIN search.result :
               \A k \in CandidatesOf(search.result[i]) :
                   search.ranked[k].score <= search.result[i].score

\* two entities returned with different scores, the second one having a
\* candidate chunk that scored lower than the one kept for it
C23_Witness ==
    /\ search.pc = "returned"
    /\ search.path = "retrieval"
    /\ Len(search.result) = 2
    /\ search.result[1].score > search.result[2].score
    /\ \E k \in CandidatesOf(search.result[2]) :
           search.ranked[k].score < search.result[2].score

\* the distinct entities among the scored candidates of the search
CandidateEntities == {DedupKey(search.ranked[k].row) : k \in DOMAIN search.ranked}

\* C24: a search returns at most topk results, and the retrieval path
\* returns fewer than topk only when its candidates hold fewer than topk
\* distinct entities: it returns min(topk, distinct candidate entities)
C24_AtMostTopk ==
    search.pc = "returned" =>
        /\ Len(search.result) <= search.topk
        /\ (search.path = "retrieval" /\ search.exc = "none" =>
                Len(search.result)
                    = Min(search.topk, Cardinality(CandidateEntities)))

\* the walk stopped at topk = 1 with candidates of two entities
C24_Witness ==
    /\ search.pc = "returned"
    /\ search.path = "retrieval"
    /\ search.exc = "none"
    /\ search.topk = 1
    /\ Len(search.result) = 1
    /\ Cardinality(CandidateEntities) = 2

\* a code that ends in "-<id>" after a type label
SynthForm(code, id) ==
    /\ ~code.null
    /\ Len(code.text) > Len(IntDigits(id)) + 1
    /\ SubSeq(code.text, Len(code.text) - Len(IntDigits(id)),
              Len(code.text)) = <<"-">> \o IntDigits(id)

\* C25: every snapshot entry has a non-null display code: the designation
\* column when it has a value (a non-empty string), a synthesized
\* "<type>-<id>" when it is NULL
C25_DisplayCode ==
    snap.pc = "entry" =>
        /\ ~snap.code.null
        /\ (Truthy(Designation(snap.type, snap.row)) =>
                snap.code = Designation(snap.type, snap.row))
        /\ (Designation(snap.type, snap.row).null =>
                SynthForm(snap.code, snap.id))

\* some assignment of the anomaly is current (end_date IS NULL)
HasCurrent(tbl) == \E i \in DOMAIN tbl : tbl[i].open

\* C26: execute_transaction returns True only when both queries were
\* executed and committed; when a query or the commit fails, or there is no
\* connection, it returns False and the committed rows are what they were,
\* so a current assignment is never left closed without its successor
C26_AllOrNothing ==
    txn.pc = "returned" =>
        /\ (txn.result =>
               /\ txn.k = 2
               /\ txn.fail = "none"
               /\ txn.table = InsertNew(CloseCurrent(txn.before), txn.fac))
        /\ (txn.fail # "none" => ~txn.result)
        /\ (~txn.result => txn.table = txn.before)
        /\ (HasCurrent(txn.before) => HasCurrent(txn.table))

\* the insert failed after the close had been executed on a current
\* assignment, and the call returned False
C26_Witness ==
    /\ txn.pc = "returned"
    /\ txn.fail = "query2"
    /\ txn.k = 1
    /\ ~txn.result
    /\ HasCurrent(txn.before)

\* C27: after a complete pass every entity of the snapshot has at least one
\* chunk carrying its own (ref_type, ref_id), also when its display code is
\* the code of another entity that was stored before
C27_EveryEntityChunked ==
    pass.pc = "done" =>
        \A i \in DOMAIN pass.entries :
            ChunksOf(chunks, pass.entries[i].ref_type,
                     pass.entries[i].ref_id) # {}

\* C28: a pass deletes chunks only for codes that no Record Store row has,
\* also when the read of an entity table fails
C28_DeletesOnlyAbsent ==
    pass.pc # "idle" =>
        \A c \in pass.chunks0 \ chunks :
            \A r \in records : r.code # c.scp_code

\* C29: after remove_from_vector_store(code) returns, no committed chunk
\* has scp_code = code, the chunks of the other codes are as they were, and
\* the index artifact is built from the chunks that remain (the rebuild
\* having read them)
C29_RemoveByCode ==
    (removal.pc = "returned" /\ ~removal.raised) =>
        /\ \A c \in removal.after : c.scp_code # removal.code
        /\ removal.after
               = {c \in removal.before : c.scp_code # removal.code}
        /\ (removal.read = "rows" =>
                removal.file = [exists |-> TRUE,
                                labels |-> IndexLabels(removal.after)])

\* C30: when a rebuild has read the Chunk Store, empty or not, and written
\* a new index artifact, the next load_hnsw_index of the process returns the
\* content of the new artifact, never that of the index cached before
C30_CacheInvalidated ==
    (removal.pc = "returned" /\ removal.saved /\ removal.read = "rows") =>
        LoadIndex(removal.after, removal.file, removal.cache, FALSE,
                  FALSE).labels = removal.file.labels

====
